---- MODULE Spec2Model ----
(***************************************************************************)
(* Repairman (src/repair/repair/Repairman.cpp): the repair orchestrator of *)
(* WCDB.  It forwards assemble operations to an Assembler, checkpoints     *)
(* ("milestone") every time the distance travelled exceeds m_milestone,    *)
(* credits a per-cell weight to a Progress score and routes collaborator   *)
(* errors through tryUpgradeError.                                         *)
(*                                                                         *)
(* Scores and weights are C++ doubles.  They are modelled in fixed point:  *)
(* ScoreOne units are 1.0; the weights and cell counts of the model are    *)
(* chosen so that every division pageWeight / cellCount is exact.          *)
(*                                                                         *)
(* The base classes Progress (increaseScore, markFractionalScoreCounted,   *)
(* finishProgress) and the error base (tryUpgradeError) are not part of    *)
(* Repairman.cpp; they are modelled from the specification's text.         *)
(***************************************************************************)
EXTENDS Integers, Sequences, FiniteSets, TLC

VARIABLES
    m_milestone,      \* checkpoint threshold
    m_mile,           \* distance travelled since the last checkpoint attempt
    m_pageWeight,     \* weight of one page, fixed point
    m_cellWeight,     \* weight of one cell, fixed point
    score,            \* Progress: completion score, fixed point
    fractionalScore,  \* Progress: score accrued since the last committed checkpoint
    countedScore,     \* Progress: score folded in by committed checkpoints
    critical,         \* a Critical error has been raised in this session
    assembling,       \* Assembler: its markAsAssembling has succeeded
    started,          \* caller: Repairman::markAsAssembling has returned true
    cellCount,        \* argument of the latest markCellCount call (0 before any)
    op,               \* the latest operation
    result,           \* what it returned: "true", "false" or "void"
    trace,            \* what it did, in order: Assembler calls, broadcasts, Progress calls
    pre,              \* counter, score and flags as they were when it was entered
    cells,            \* scenario: successful assembleCell calls so far
    milestones,       \* scenario: Assembler markAsMilestone invocations so far
    uncommitted,      \* distance assembled since the last checkpoint the Assembler committed
    failedSince       \* a checkpoint attempt has failed since that checkpoint

vars == <<m_milestone, m_mile, m_pageWeight, m_cellWeight, score, fractionalScore,
          countedScore, critical, assembling, started, cellCount, op, result,
          trace, pre, cells, milestones, uncommitted, failedSince>>

countVars == <<cells, milestones>>

distanceVars == <<uncommitted, failedSince>>

scenarioVars == <<countVars, distanceVars>>

(***************************************************************************)
(* Numbers                                                                 *)
(***************************************************************************)
\* 1.0 in fixed point.
ScoreOne == 100

\* towardMilestone(100) in assembleTable, towardMilestone(1) in assembleCell.
TableMile == 100

CellMile == 1

\* The constructor's threshold.
DefaultMilestone == 5000

\* Thresholds the sessions of the model are configured with.  The constructor sets
\* m_milestone to 5000; a small threshold makes the counter pass it within a few cells,
\* and every table (100 units) then takes a checkpoint.
Milestones == {2}

\* Page weights handed to setPageWeight: 0 and 1.0.
PageWeights == {0, ScoreOne}

\* Cell counts handed to markCellCount.
CellCounts == {-1, 0, 2}

\* assembleCell is not explored once the credited weights sum to more than this.
MaxCredit == 150

\* The scenario of ten cells: page weight 0.1, ten cells a page, threshold 5.
ScenarioCells == 10

\* With the threshold of 5000, markAsAssembled is explored on counters up to this.
MaxForcedMile == 100

\* Table and cell operations are not explored once the distance assembled since the
\* last committed checkpoint would pass this.
MaxUncommitted == 210

Min(a, b) == IF a < b THEN a ELSE b

(***************************************************************************)
(* Errors                                                                  *)
(***************************************************************************)
Levels == {"Warning", "Fatal", "Critical"}

Codes == {"Corrupt", "IOError"}

\* The errors a failing collaborator leaves behind: Fatal or Critical, of either code.
\* Warning is the level Repairman downgrades to.
Errors == [level : Levels \ {"Warning"}, code : Codes]

NoError == [level |-> "none", code |-> "none"]

\* What a call to a collaborator can answer: success, or failure with its last error.
Succeeded == [ok |-> TRUE, error |-> NoError]

Outcomes == {Succeeded} \cup {[ok |-> FALSE, error |-> e] : e \in Errors}

(***************************************************************************)
(* The state an operation works on, and the log of what it does            *)
(***************************************************************************)
Enter ==
    [mile |-> m_mile, score |-> score, fractionalScore |-> fractionalScore,
     countedScore |-> countedScore, critical |-> critical, assembling |-> assembling,
     error |-> NoError, result |-> "void", trace |-> <<>>]

\* error.infos, for the errors that carry some.
InfosOf(error) == IF "infos" \in DOMAIN error THEN error.infos ELSE <<>>

\* One entry of the log.  critical: whether a Critical error had been raised before it.
Event(s, e, ok, error, n) ==
    [e |-> e, ok |-> ok, level |-> error.level, code |-> error.code,
     infos |-> InfosOf(error), n |-> n, critical |-> s.critical]

Log(s, e, ok, error, n) == [s EXCEPT !.trace = Append(@, Event(s, e, ok, error, n))]

AssemblerCalls ==
    {"markAsAssembling", "markAsMilestone", "markAsAssembled", "assembleTable",
     "assembleCell"}

AssemblerWrites == AssemblerCalls \ {"markAsAssembling"}

\* m_assembler->f(...): the call is logged and a failure leaves the Assembler's error.
Assembler(s, f, out) ==
    [Log(s, f, out.ok, out.error, 0) EXCEPT
        !.error = IF out.ok THEN @ ELSE out.error,
        !.assembling = IF f = "markAsAssembling" /\ out.ok THEN TRUE ELSE @]

SetMile(s, n) == [Log(s, "m_mile", TRUE, NoError, n) EXCEPT !.mile = n]

Return(s, r) == [s EXCEPT !.result = r]

(***************************************************************************)
(* Progress                                                                *)
(***************************************************************************)
increaseScore(s, increment) ==
    [Log(s, "increaseScore", TRUE, NoError, increment) EXCEPT
        !.score = Min(ScoreOne, @ + increment),
        !.fractionalScore = @ + increment]

markFractionalScoreCounted(s) ==
    [Log(s, "markFractionalScoreCounted", TRUE, NoError, s.fractionalScore) EXCEPT
        !.countedScore = @ + s.fractionalScore,
        !.fractionalScore = 0]

finishProgress(s) ==
    [Log(s, "finishProgress", TRUE, NoError, 0) EXCEPT !.score = ScoreOne]

(***************************************************************************)
(* Critical Error                                                          *)
(***************************************************************************)
\* Mutant: the Critical error does not touch the progress.
onErrorCritical_LeavesProgress(s) == s

onErrorCritical(s) == finishProgress(s)

tryUpgradeError(s, error) ==
    LET notified == Log(s, "notify", FALSE, error, 0)
    IN  IF error.level = "Critical"
        THEN onErrorCritical([notified EXCEPT !.critical = TRUE])
        ELSE notified

\* Mutant: the Corrupt error is passed on at the level the Page Source reported.
tryUpgradeCrawlerError_NoDowngrade(s, pagerError) ==
    tryUpgradeError(Log(s, "m_pager.getError", FALSE, pagerError, 0), pagerError)

\* m_pager.getError(): the Page Source's last error, logged as it was reported.
tryUpgradeCrawlerError(s, pagerError) ==
    LET got == Log(s, "m_pager.getError", FALSE, pagerError, 0)
    IN  tryUpgradeError(got, IF pagerError.code = "Corrupt"
                             THEN [pagerError EXCEPT !.level = "Warning"]
                             ELSE pagerError)

\* Mutant: the Assembler's error goes through the Page Source's downgrade.
tryUpgrateAssemblerError_Downgrades(s) ==
    tryUpgradeError(s, IF s.error.code = "Corrupt"
                       THEN [s.error EXCEPT !.level = "Warning"]
                       ELSE s.error)

tryUpgrateAssemblerError(s) == tryUpgradeError(s, s.error)

onCrawlerError(s, pagerError) == tryUpgradeCrawlerError(s, pagerError)

\* setCriticalErrorWIthSharedThreadedError(): the thread's ambient error is escalated
\* at Critical severity.
setCriticalErrorWIthSharedThreadedError(s, threadedError) ==
    tryUpgradeError(s, [threadedError EXCEPT !.level = "Critical"])

(***************************************************************************)
(* Initialize                                                              *)
(***************************************************************************)
getPath == "damaged.db"

\* Sizes FileManager::getFileSize reports.
FileSizes == {0, 4096}

\* Mutant: the test of succeed is inverted.
isEmptyDatabase_WarnsOnFailure(s, succeed, fileSize, threadedError) ==
    LET probed == Log(s, "getFileSize", succeed, NoError, fileSize)
    IN  IF fileSize = 0
        THEN Return(IF ~succeed
                    THEN Log(probed, "notify", FALSE,
                             [level |-> "Warning", code |-> "Empty",
                              infos |-> <<"Path", getPath>>], 0)
                    ELSE setCriticalErrorWIthSharedThreadedError(probed, threadedError),
                    "true")
        ELSE Return(probed, "false")

\* Notifier::shared()->notify(error) broadcasts without going through tryUpgradeError.
isEmptyDatabase(s, succeed, fileSize, threadedError) ==
    LET probed == Log(s, "getFileSize", succeed, NoError, fileSize)
    IN  IF fileSize = 0
        THEN Return(IF succeed
                    THEN Log(probed, "notify", FALSE,
                             [level |-> "Warning", code |-> "Empty",
                              infos |-> <<"Path", getPath>>], 0)
                    ELSE setCriticalErrorWIthSharedThreadedError(probed, threadedError),
                    "true")
        ELSE Return(probed, "false")

(***************************************************************************)
(* Evaluation                                                              *)
(***************************************************************************)
markCellAsCounted(s) == increaseScore(s, m_cellWeight)

\* Mutant: the guard cellCount > 0 only keeps the division from a zero count.
markCellCount_Unguarded(pageWeight, count) ==
    IF count = 0 THEN 0
    ELSE IF count > 0 THEN pageWeight \div count ELSE -(pageWeight \div (-count))

\* Mutant: the page weight is not divided.
markCellCount_Undivided(pageWeight, count) == IF count > 0 THEN pageWeight ELSE 0

markCellCount(pageWeight, count) == IF count > 0 THEN pageWeight \div count ELSE 0

(***************************************************************************)
(* Assemble                                                                *)
(***************************************************************************)
\* Mutant: the failure is escalated but true is returned.
markAsAssembling_AlwaysTrue(s, out) ==
    LET called == Assembler(s, "markAsAssembling", out)
    IN  Return(IF out.ok THEN called ELSE tryUpgrateAssemblerError(called), "true")

markAsAssembling(s, out) ==
    LET called == Assembler(s, "markAsAssembling", out)
    IN  IF out.ok
        THEN Return(called, "true")
        ELSE Return(tryUpgrateAssemblerError(called), "false")

\* Mutant: the fractional score is counted whatever the checkpoint answered.
markAsMilestone_CountsAlways(s, out) ==
    LET called == Assembler(s, "markAsMilestone", out)
    IN  SetMile(markFractionalScoreCounted(IF out.ok
                                           THEN called
                                           ELSE tryUpgrateAssemblerError(called)), 0)

\* Mutant: the counter is reset only when the checkpoint is committed.
markAsMilestone_ResetsOnSuccess(s, out) ==
    LET called == Assembler(s, "markAsMilestone", out)
    IN  IF out.ok
        THEN SetMile(markFractionalScoreCounted(called), 0)
        ELSE tryUpgrateAssemblerError(called)

markAsMilestone(s, out) ==
    LET called == Assembler(s, "markAsMilestone", out)
    IN  SetMile(IF out.ok
                THEN markFractionalScoreCounted(called)
                ELSE tryUpgrateAssemblerError(called), 0)

\* Mutant: the checkpoint is taken when the counter reaches the threshold.
towardMilestone_AtThreshold(s, mile, outMilestone) ==
    LET moved == SetMile(s, s.mile + mile)
    IN  IF moved.mile >= m_milestone THEN markAsMilestone(moved, outMilestone) ELSE moved

towardMilestone(s, mile, outMilestone) ==
    LET moved == SetMile(s, s.mile + mile)
    IN  IF moved.mile > m_milestone THEN markAsMilestone(moved, outMilestone) ELSE moved

\* Mutant: the final commit is skipped when the terminal checkpoint failed.
markAsAssembled_SkipsCommit(s, outMilestone, out) ==
    LET marked == markAsMilestone(s, outMilestone)
        called == Assembler(marked, "markAsAssembled", out)
    IN  IF ~outMilestone.ok
        THEN Return(finishProgress(marked), "false")
        ELSE IF out.ok
        THEN Return(finishProgress(called), "true")
        ELSE Return(finishProgress(tryUpgrateAssemblerError(called)), "false")

\* Mutant: a failed final commit returns before the progress is finished.
markAsAssembled_ReturnsEarly(s, outMilestone, out) ==
    LET marked == markAsMilestone(s, outMilestone)
        called == Assembler(marked, "markAsAssembled", out)
    IN  IF out.ok
        THEN Return(finishProgress(called), "true")
        ELSE Return(tryUpgrateAssemblerError(called), "false")

markAsAssembled(s, outMilestone, out) ==
    LET marked == markAsMilestone(s, outMilestone)
        called == Assembler(marked, "markAsAssembled", out)
    IN  IF out.ok
        THEN Return(finishProgress(called), "true")
        ELSE Return(finishProgress(tryUpgrateAssemblerError(called)), "false")

\* Mutant: a failed table still moves toward the milestone.
assembleTable_CountsFailures(s, out, outMilestone) ==
    LET called == Assembler(s, "assembleTable", out)
    IN  IF out.ok
        THEN Return(towardMilestone(called, TableMile, outMilestone), "true")
        ELSE Return(towardMilestone(tryUpgrateAssemblerError(called), TableMile,
                                    outMilestone), "false")

\* Mutant: the result also reports the checkpoint.
assembleTable_ReportsCheckpoint(s, out, outMilestone) ==
    LET called == Assembler(s, "assembleTable", out)
        moved == towardMilestone(called, TableMile, outMilestone)
    IN  IF out.ok
        THEN Return(moved, IF moved.error = NoError THEN "true" ELSE "false")
        ELSE Return(tryUpgrateAssemblerError(called), "false")

assembleTable(s, out, outMilestone) ==
    LET called == Assembler(s, "assembleTable", out)
    IN  IF out.ok
        THEN Return(towardMilestone(called, TableMile, outMilestone), "true")
        ELSE Return(tryUpgrateAssemblerError(called), "false")

\* Mutant: the cell is counted after the move toward the milestone.
assembleCell_MilestoneFirst(s, out, outMilestone) ==
    LET called == Assembler(s, "assembleCell", out)
    IN  IF ~out.ok
        THEN Return(tryUpgrateAssemblerError(called), "void")
        ELSE Return(markCellAsCounted(towardMilestone(called, CellMile, outMilestone)),
                    "void")

assembleCell(s, out, outMilestone) ==
    LET called == Assembler(s, "assembleCell", out)
    IN  IF ~out.ok
        THEN Return(tryUpgrateAssemblerError(called), "void")
        ELSE Return(towardMilestone(markCellAsCounted(called), CellMile, outMilestone),
                    "void")

(***************************************************************************)
(* The operations as steps of a session                                    *)
(***************************************************************************)
\* The outcome of the checkpoint is only asked for when the checkpoint is reached.
MilestoneOutcomes(mile) == IF m_mile + mile > m_milestone THEN Outcomes ELSE {Succeeded}

Leave(name, s) ==
    /\ op' = name
    /\ result' = s.result
    /\ trace' = s.trace
    /\ pre' = [mile |-> m_mile, score |-> score, cellWeight |-> m_cellWeight,
               critical |-> critical, assembling |-> assembling, started |-> started,
               fractionalScore |-> fractionalScore, countedScore |-> countedScore]
    /\ m_mile' = s.mile
    /\ score' = s.score
    /\ fractionalScore' = s.fractionalScore
    /\ countedScore' = s.countedScore
    /\ critical' = s.critical
    /\ assembling' = s.assembling
    /\ started' = (started \/ (name = "markAsAssembling" /\ s.result = "true"))

StepIsEmptyDatabase(succeed, fileSize, threadedError) ==
    /\ Leave("isEmptyDatabase", isEmptyDatabase(Enter, succeed, fileSize, threadedError))
    /\ UNCHANGED <<m_milestone, m_pageWeight, m_cellWeight, cellCount>>

StepMarkAsAssembling(out) ==
    /\ Leave("markAsAssembling", markAsAssembling(Enter, out))
    /\ UNCHANGED <<m_milestone, m_pageWeight, m_cellWeight, cellCount>>

StepMarkAsAssembled(outMilestone, out) ==
    /\ Leave("markAsAssembled", markAsAssembled(Enter, outMilestone, out))
    /\ UNCHANGED <<m_milestone, m_pageWeight, m_cellWeight, cellCount>>

StepAssembleTable(out, outMilestone) ==
    /\ Leave("assembleTable", assembleTable(Enter, out, outMilestone))
    /\ UNCHANGED <<m_milestone, m_pageWeight, m_cellWeight, cellCount>>

StepAssembleCell(out, outMilestone) ==
    /\ countedScore + fractionalScore + m_cellWeight <= MaxCredit
    /\ Leave("assembleCell", assembleCell(Enter, out, outMilestone))
    /\ UNCHANGED <<m_milestone, m_pageWeight, m_cellWeight, cellCount>>

StepOnCrawlerError(pagerError) ==
    /\ Leave("onCrawlerError", onCrawlerError(Enter, pagerError))
    /\ UNCHANGED <<m_milestone, m_pageWeight, m_cellWeight, cellCount>>

StepMarkCellCount(count) ==
    /\ Leave("markCellCount", Enter)
    /\ m_cellWeight' = markCellCount(m_pageWeight, count)
    /\ cellCount' = count
    /\ UNCHANGED <<m_milestone, m_pageWeight>>

StepSetPageWeight(pageWeight) ==
    /\ Leave("setPageWeight", Enter)
    /\ m_pageWeight' = pageWeight
    /\ UNCHANGED <<m_milestone, m_cellWeight, cellCount>>

(***************************************************************************)
(* Sessions: any caller                                                    *)
(***************************************************************************)
Constructed ==
    /\ m_mile = 0
    /\ m_pageWeight = 0
    /\ m_cellWeight = 0
    /\ score = 0
    /\ fractionalScore = 0
    /\ countedScore = 0
    /\ critical = FALSE
    /\ assembling = FALSE
    /\ started = FALSE
    /\ cellCount = 0
    /\ op = "Repairman"
    /\ result = "void"
    /\ trace = <<>>
    /\ pre = [mile |-> 0, score |-> 0, cellWeight |-> 0, critical |-> FALSE,
              assembling |-> FALSE, started |-> FALSE, fractionalScore |-> 0,
              countedScore |-> 0]
    /\ cells = 0
    /\ milestones = 0
    /\ uncommitted = 0
    /\ failedSince = FALSE

Init ==
    /\ Constructed
    /\ m_milestone \in Milestones

\* The ambient error is only read when the probe failed.
IsEmptyDatabase ==
    \E succeed \in BOOLEAN, fileSize \in FileSizes :
        \E threadedError \in (IF succeed THEN {NoError} ELSE Errors) :
            StepIsEmptyDatabase(succeed, fileSize, threadedError) /\ UNCHANGED scenarioVars

MarkAsAssembling ==
    \E out \in Outcomes : StepMarkAsAssembling(out) /\ UNCHANGED scenarioVars

MarkAsAssembled ==
    \E outMilestone \in Outcomes, out \in Outcomes :
        StepMarkAsAssembled(outMilestone, out) /\ UNCHANGED scenarioVars

AssembleTable ==
    \E out \in Outcomes : \E outMilestone \in MilestoneOutcomes(TableMile) :
        StepAssembleTable(out, outMilestone) /\ UNCHANGED scenarioVars

AssembleCell ==
    \E out \in Outcomes : \E outMilestone \in MilestoneOutcomes(CellMile) :
        StepAssembleCell(out, outMilestone) /\ UNCHANGED scenarioVars

OnCrawlerError ==
    \E pagerError \in Errors : StepOnCrawlerError(pagerError) /\ UNCHANGED scenarioVars

MarkCellCount ==
    \E count \in CellCounts : StepMarkCellCount(count) /\ UNCHANGED scenarioVars

SetPageWeight ==
    \E pageWeight \in PageWeights : StepSetPageWeight(pageWeight) /\ UNCHANGED scenarioVars

Next ==
    \/ IsEmptyDatabase
    \/ MarkAsAssembling
    \/ MarkAsAssembled
    \/ AssembleTable
    \/ AssembleCell
    \/ OnCrawlerError
    \/ MarkCellCount
    \/ SetPageWeight

Spec == Init /\ [][Next]_vars

(***************************************************************************)
(* Sessions: a caller that keeps the preconditions of the operations.  It  *)
(* issues assembleTable, assembleCell and markAsAssembled only once        *)
(* markAsAssembling has returned true, and stops once a Critical error has *)
(* been raised.                                                            *)
(***************************************************************************)
MayAssemble == started /\ ~critical

GuardedMarkAsAssembled == MayAssemble /\ MarkAsAssembled

GuardedAssembleTable == MayAssemble /\ AssembleTable

GuardedAssembleCell == MayAssemble /\ AssembleCell

NextGuarded ==
    \/ IsEmptyDatabase
    \/ MarkAsAssembling
    \/ GuardedMarkAsAssembled
    \/ GuardedAssembleTable
    \/ GuardedAssembleCell
    \/ OnCrawlerError
    \/ MarkCellCount
    \/ SetPageWeight

SpecGuarded == Init /\ [][NextGuarded]_vars

(***************************************************************************)
(* The scenario of ten cells: setPageWeight(0.1), markCellCount(10), then  *)
(* assembleCell calls with a threshold of 5.  cells counts the calls whose *)
(* Assembler assembleCell succeeded, milestones the Assembler              *)
(* markAsMilestone invocations.                                            *)
(***************************************************************************)
ScenarioInit ==
    /\ Constructed
    /\ m_milestone = 5

ScenarioSetPageWeight ==
    /\ op = "Repairman"
    /\ StepSetPageWeight(ScoreOne \div 10)
    /\ UNCHANGED scenarioVars

ScenarioMarkCellCount ==
    /\ op = "setPageWeight"
    /\ StepMarkCellCount(10)
    /\ UNCHANGED scenarioVars

ScenarioAssembleCell ==
    /\ op \in {"markCellCount", "assembleCell"}
    /\ cells < ScenarioCells
    /\ \E out \in Outcomes : \E outMilestone \in MilestoneOutcomes(CellMile) :
          /\ StepAssembleCell(out, outMilestone)
          /\ cells' = cells + (IF out.ok THEN 1 ELSE 0)
          /\ milestones' = milestones
                + Cardinality({i \in DOMAIN trace' : trace'[i].e = "markAsMilestone"})
          /\ UNCHANGED distanceVars

NextScenario ==
    \/ ScenarioSetPageWeight
    \/ ScenarioMarkCellCount
    \/ ScenarioAssembleCell

SpecScenario == ScenarioInit /\ [][NextScenario]_vars

(***************************************************************************)
(* Sessions that assemble, with the distance an interruption would lose:   *)
(* what the successful assembleTable (100) and assembleCell (1) calls have *)
(* added since the last checkpoint the Assembler committed.                *)
(***************************************************************************)
\* The distance the operation that leaves trace t has added.
Assembled(t) ==
    IF t[1].e = "assembleTable" /\ t[1].ok THEN TableMile
    ELSE IF t[1].e = "assembleCell" /\ t[1].ok THEN CellMile
    ELSE 0

Checkpoints(t) == {i \in DOMAIN t : t[i].e = "markAsMilestone"}

\* A checkpoint is the last Assembler write of assembleTable and assembleCell and the
\* first of markAsAssembled: a committed one leaves nothing uncommitted.
Track ==
    /\ uncommitted' =
          IF \E i \in Checkpoints(trace') : trace'[i].ok
          THEN 0
          ELSE uncommitted + Assembled(trace')
    /\ failedSince' =
          IF Checkpoints(trace') = {}
          THEN failedSince
          ELSE \E i \in Checkpoints(trace') : ~trace'[i].ok
    /\ UNCHANGED countVars

TrackedMarkAsAssembled ==
    \E outMilestone \in Outcomes, out \in Outcomes :
        StepMarkAsAssembled(outMilestone, out) /\ Track

TrackedAssembleTable ==
    /\ uncommitted + TableMile <= MaxUncommitted
    /\ \E out \in Outcomes : \E outMilestone \in MilestoneOutcomes(TableMile) :
          StepAssembleTable(out, outMilestone) /\ Track

TrackedAssembleCell ==
    /\ uncommitted + CellMile <= MaxUncommitted
    /\ \E out \in Outcomes : \E outMilestone \in MilestoneOutcomes(CellMile) :
          StepAssembleCell(out, outMilestone) /\ Track

NextTracked ==
    \/ TrackedMarkAsAssembled
    \/ TrackedAssembleTable
    \/ TrackedAssembleCell

SpecTracked == Init /\ [][NextTracked]_vars

(***************************************************************************)
(* Sessions that assemble, as constructed: the threshold is 5000, which    *)
(* fifty tables reach and do not pass.                                     *)
(***************************************************************************)
InitCounter ==
    /\ Constructed
    /\ m_milestone = DefaultMilestone

\* markAsAssembled is explored on the low counters and on the counter at the threshold.
CounterMarkAsAssembled ==
    /\ m_mile <= MaxForcedMile \/ m_mile = m_milestone
    /\ MarkAsAssembled

NextCounter ==
    \/ CounterMarkAsAssembled
    \/ AssembleTable
    \/ AssembleCell

SpecCounter == InitCounter /\ [][NextCounter]_vars

(***************************************************************************)
(* Properties                                                              *)
(***************************************************************************)
\* Where the latest operation did e.
At(e) == {i \in DOMAIN trace : trace[i].e = e}

\* Where the latest operation called an Assembler write operation.
Writes == {i \in DOMAIN trace : trace[i].e \in AssemblerWrites}

\* The latest operation raised no Critical error.
NoCriticalRaised == \A i \in At("notify") : trace[i].level # "Critical"

\* pageWeight / cellCount when cellCount > 0, else 0.
Quotient(weight, count) == IF count > 0 THEN weight \div count ELSE 0

\* C1, as claimed: no Assembler write operation is invoked before markAsAssembling
\* has returned success, and none after a Critical error has been raised.
C1_NoWriteBeforeAssemblingNorAfterCritical ==
    \A i \in Writes : pre.started /\ ~trace[i].critical

\* C1, amended: under a caller that keeps the preconditions, every Assembler write
\* operation is invoked after the Assembler's markAsAssembling has succeeded, and the
\* only one invoked after a Critical error is the markAsAssembled of the
\* Repairman::markAsAssembled call whose own terminal checkpoint raised that error.
C1_WritesOfAGuardedSession ==
    \A i \in Writes :
        /\ pre.assembling
        /\ trace[i].critical =>
              /\ ~pre.critical
              /\ op = "markAsAssembled"
              /\ trace[i].e = "markAsAssembled"

\* C1, witness: the final commit is issued although the terminal checkpoint of the same
\* markAsAssembled call has just raised a Critical error.
C1_Witness ==
    /\ op = "markAsAssembled"
    /\ pre.started
    /\ ~pre.critical
    /\ \E i \in At("markAsAssembled") : trace[i].critical

\* C2, as claimed: page weight 0.1, ten cells a page, threshold 5: ten successful
\* assembleCell calls invoke markAsMilestone exactly twice and credit 0.1.
C2_TwoCheckpoints ==
    cells = 10 => milestones = 2 /\ score = ScoreOne \div 10

\* C2, amended: the ten successful assembleCell calls invoke markAsMilestone exactly
\* once (the sixth takes the counter over 5), the cell weight is 0.01, the credits sum
\* to 0.1, and the completion score is 0.1 unless a Critical error finished it.
C2_OneCheckpoint ==
    cells = 10 =>
        /\ milestones = 1
        /\ m_cellWeight = ScoreOne \div 100
        /\ countedScore + fractionalScore = ScoreOne \div 10
        /\ ~critical => score = ScoreOne \div 10

\* C2, witness: the ten cells are assembled, and no error was Critical.
C2_Witness ==
    /\ cells = 10
    /\ milestones = 1
    /\ ~critical
    /\ score = ScoreOne \div 10

\* C3: after markAsAssembled the completion score is exactly 1.0 and a terminal
\* checkpoint has been attempted in that call, whatever the Assembler answered.
C3_AssembledFinishes ==
    op = "markAsAssembled" =>
        /\ score = ScoreOne
        /\ At("markAsMilestone") # {}
        /\ \A i \in At("markAsMilestone") : \A j \in At("markAsAssembled") : i < j

\* C3, witness: the checkpoint and the final commit both failed, without a Critical
\* error, on a session whose score was below 1.0.
C3_Witness ==
    /\ op = "markAsAssembled"
    /\ result = "false"
    /\ pre.score < ScoreOne
    /\ NoCriticalRaised
    /\ \E i \in At("markAsMilestone") : ~trace[i].ok

C6_CellWeightFollowsPageWeight == m_cellWeight = Quotient(m_pageWeight, cellCount)

\* C6, amended: markCellCount(n) sets cellWeight to the pageWeight of that moment
\* divided by n (0 when n <= 0); no other operation, setPageWeight included, changes
\* cellWeight.
C6_CellWeightSetByMarkCellCount ==
    /\ op = "markCellCount" => m_cellWeight = Quotient(m_pageWeight, cellCount)
    /\ op # "markCellCount" => m_cellWeight = pre.cellWeight

\* C6, witness: setPageWeight has left a cell weight that is no longer the quotient.
C6_Witness ==
    /\ op = "setPageWeight"
    /\ cellCount > 0
    /\ m_cellWeight # Quotient(m_pageWeight, cellCount)

\* C7: a failed assembleTable returns false, broadcasts the Assembler's error as it is
\* and leaves the counter alone (and the score, unless the error is Critical); a
\* successful one adds exactly 100 to the counter before the threshold is checked.
C7_AssembleTable ==
    op = "assembleTable" =>
        /\ trace[1].e = "assembleTable"
        /\ ~trace[1].ok =>
              /\ result = "false"
              /\ At("notify") = {2}
              /\ trace[2].level = trace[1].level
              /\ trace[2].code = trace[1].code
              /\ At("m_mile") = {}
              /\ m_mile = pre.mile
              /\ trace[1].level # "Critical" => score = pre.score
        /\ trace[1].ok =>
              /\ result = "true"
              /\ trace[2].e = "m_mile"
              /\ trace[2].n = pre.mile + TableMile
              /\ \A i \in At("markAsMilestone") : i > 2

\* C7, witness: the Assembler fails a table with a Fatal IOError while the counter is
\* not zero.
C7_Witness ==
    /\ op = "assembleTable"
    /\ result = "false"
    /\ trace[1].level = "Fatal"
    /\ trace[1].code = "IOError"
    /\ pre.mile > 0

\* C8: assembleCell credits cellWeight and adds 1 to the counter exactly when the
\* Assembler's assembleCell succeeded, the credit coming before the threshold check;
\* a call that failed without a Critical error leaves score and counter as they were.
C8_AssembleCell ==
    op = "assembleCell" =>
        /\ trace[1].e = "assembleCell"
        /\ trace[1].ok =>
              /\ At("increaseScore") = {2}
              /\ trace[2].n = m_cellWeight
              /\ trace[3].e = "m_mile"
              /\ trace[3].n = pre.mile + CellMile
              /\ \A i \in At("markAsMilestone") : i > 3
              /\ At("markAsMilestone") = {} => m_mile = pre.mile + CellMile
              /\ NoCriticalRaised => score = Min(ScoreOne, pre.score + m_cellWeight)
        /\ ~trace[1].ok =>
              /\ At("increaseScore") = {}
              /\ At("m_mile") = {}
              /\ m_mile = pre.mile
              /\ trace[1].level # "Critical" => score = pre.score

\* C8, witness: a cell of positive weight is credited in the call that takes the
\* checkpoint.
C8_Witness ==
    /\ op = "assembleCell"
    /\ trace[1].ok
    /\ m_cellWeight > 0
    /\ score = pre.score + m_cellWeight
    /\ At("markAsMilestone") # {}

\* The operations that delegate to the Assembler, and whether the delegated call of
\* the latest one succeeded.
Delegating == {"markAsAssembling", "assembleTable", "assembleCell", "markAsAssembled"}

DelegatedOk == \E i \in At(op) : trace[i].ok

C10_CrawlerError ==
    op = "onCrawlerError" =>
        /\ trace[1].e = "m_pager.getError"
        /\ At("notify") = {2}
        /\ trace[2].code = trace[1].code
        /\ trace[1].code = "Corrupt" =>
              /\ trace[2].level = "Warning"
              /\ At("finishProgress") = {}
              /\ score = pre.score
              /\ critical = pre.critical
        /\ trace[1].code # "Corrupt" => trace[2].level = trace[1].level

\* C10, witness: the Page Source reported a Critical Corrupt error on a session that
\* goes on.
C10_Witness ==
    /\ op = "onCrawlerError"
    /\ trace[1].code = "Corrupt"
    /\ trace[1].level = "Critical"
    /\ trace[2].level = "Warning"
    /\ ~critical
    /\ score < ScoreOne

\* C11, as claimed: isEmptyDatabase returns true with exactly one Warning Empty error
\* (Path -> the source path) when the probe succeeds with size 0; returns true and
\* escalates at Critical, with no Empty warning, whenever the probe fails; returns
\* false and broadcasts nothing when the probe succeeds with a size that is not 0.
C11_EmptyDatabaseWheneverProbeFails ==
    op = "isEmptyDatabase" =>
        /\ trace[1].e = "getFileSize"
        /\ (trace[1].ok /\ trace[1].n = 0) =>
              /\ result = "true"
              /\ At("notify") = {2}
              /\ trace[2].level = "Warning"
              /\ trace[2].code = "Empty"
              /\ trace[2].infos = <<"Path", getPath>>
        /\ ~trace[1].ok =>
              /\ result = "true"
              /\ At("notify") = {2}
              /\ trace[2].level = "Critical"
              /\ trace[2].code # "Empty"
        /\ (trace[1].ok /\ trace[1].n # 0) =>
              /\ result = "false"
              /\ At("notify") = {}

\* C11, amended: the size is tested first.  With size 0: a successful probe gives true
\* and exactly one Warning Empty error with Path -> the source path; a failed probe
\* gives true and the ambient error escalated at Critical, with no Empty warning.
\* With a size that is not 0 the answer is false and nothing is broadcast, whether the
\* probe succeeded or failed.
C11_EmptyDatabase ==
    op = "isEmptyDatabase" =>
        /\ trace[1].e = "getFileSize"
        /\ (trace[1].ok /\ trace[1].n = 0) =>
              /\ result = "true"
              /\ At("notify") = {2}
              /\ trace[2].level = "Warning"
              /\ trace[2].code = "Empty"
              /\ trace[2].infos = <<"Path", getPath>>
              /\ critical = pre.critical
        /\ (~trace[1].ok /\ trace[1].n = 0) =>
              /\ result = "true"
              /\ At("notify") = {2}
              /\ trace[2].level = "Critical"
              /\ trace[2].code # "Empty"
              /\ critical
        /\ trace[1].n # 0 =>
              /\ result = "false"
              /\ Len(trace) = 1

\* C11, witness: the probe failed and reported a size that is not 0.
C11_Witness ==
    /\ op = "isEmptyDatabase"
    /\ ~trace[1].ok
    /\ trace[1].n # 0
    /\ result = "false"

C13_UncommittedWithinThreshold == uncommitted <= m_milestone

\* C13, amended: between operations the distance since the last checkpoint attempt
\* (the counter) is at most one threshold, and it is the distance since the last
\* committed checkpoint as long as no attempt has failed since; every failed attempt
\* resets the counter and leaves its distance uncommitted on top of it.
C13_DistanceSinceLastAttempt ==
    /\ m_mile <= m_milestone
    /\ uncommitted >= m_mile
    /\ ~failedSince => uncommitted = m_mile

\* C13, witness: after a failed checkpoint more than one threshold is uncommitted.
C13_Witness ==
    /\ failedSince
    /\ uncommitted > m_milestone
    /\ m_mile > 0

\* C14, as claimed: one markAsAssembled call runs finishProgress exactly once, also
\* when the terminal checkpoint or the final commit fails with a Critical error.
C14_FinishesExactlyOnce ==
    op = "markAsAssembled" => Cardinality(At("finishProgress")) = 1

\* How often the latest operation called the Assembler's f.
Calls(f) == Cardinality(At(f))

\* The counter as the latest assembleTable or assembleCell left it before the test of
\* the threshold: the first write of m_mile.
Moved == trace[CHOOSE i \in At("m_mile") : \A j \in At("m_mile") : i <= j].n

\* C15: inside assembleTable and assembleCell the checkpoint is attempted exactly when
\* the counter, once incremented, is above the threshold: none at the threshold, one at
\* threshold + 1, never more than one in an operation.
C15_CheckpointAboveThreshold ==
    op \in {"assembleTable", "assembleCell"} =>
        /\ ~trace[1].ok => Calls("markAsMilestone") = 0 /\ At("m_mile") = {}
        /\ trace[1].ok =>
              /\ Moved = pre.mile + Assembled(trace)
              /\ Calls("markAsMilestone") = (IF Moved > m_milestone THEN 1 ELSE 0)

\* C15, witness: a cell takes the counter from the threshold to threshold + 1 and the
\* checkpoint is attempted once.
C15_Witness ==
    /\ op = "assembleCell"
    /\ pre.mile = m_milestone
    /\ trace[1].ok
    /\ Calls("markAsMilestone") = 1

\* C15, the other side of the boundary: a table takes the counter to the threshold
\* exactly and no checkpoint is attempted.
C15_AtThreshold ==
    /\ op = "assembleTable"
    /\ trace[1].ok
    /\ m_mile = m_milestone
    /\ Calls("markAsMilestone") = 0

\* C16: right after every checkpoint attempt, triggered or forced, committed or failed,
\* the counter is set to 0, and the attempt is not repeated.
C16_CounterResetAfterCheckpoint ==
    /\ Calls("markAsMilestone") <= 1
    /\ \A i \in Checkpoints(trace) :
          /\ \E j \in At("m_mile") :
                /\ j > i
                /\ trace[j].n = 0
                /\ \A k \in (i + 1)..(j - 1) : trace[k].e \notin AssemblerCalls \cup {"m_mile"}
          /\ m_mile = 0

\* C16, witness: the forced checkpoint of markAsAssembled fails on a counter above 0.
C16_Witness ==
    /\ op = "markAsAssembled"
    /\ pre.mile > 0
    /\ \E i \in Checkpoints(trace) : ~trace[i].ok
    /\ m_mile = 0

\* C17: between operations the counter is within 0..threshold; the threshold is the
\* constructor's 5000 and the counter starts at 0.
C17_CounterWithinThreshold ==
    /\ m_milestone = DefaultMilestone
    /\ 0 <= m_mile
    /\ m_mile <= m_milestone
    /\ op = "Repairman" => m_mile = 0

\* C17, witness: the counter stands at the threshold.
C17_Witness ==
    /\ m_mile = m_milestone
    /\ m_milestone = DefaultMilestone

\* What the latest operation handed to increaseScore.
Credited == IF At("increaseScore") = {} THEN 0 ELSE trace[CHOOSE i \in At("increaseScore") : TRUE].n

Committed == {i \in Checkpoints(trace) : trace[i].ok}

\* C18: the score accrued since the previous checkpoint is counted only by a
\* checkpoint the Assembler committed, right after it; a failed checkpoint counts
\* nothing and the accrued score stays uncounted.
C18_CountedOnlyWhenCommitted ==
    /\ Calls("increaseScore") <= 1
    /\ At("markFractionalScoreCounted") = {i + 1 : i \in Committed}
    /\ Committed = {} =>
          /\ countedScore = pre.countedScore
          /\ fractionalScore = pre.fractionalScore + Credited
    /\ Committed # {} =>
          /\ countedScore = pre.countedScore + pre.fractionalScore + Credited
          /\ fractionalScore = 0

\* C18, witness: a checkpoint fails while score is accrued, and none of it is counted.
C18_Witness ==
    /\ \E i \in Checkpoints(trace) : ~trace[i].ok
    /\ pre.fractionalScore > 0
    /\ fractionalScore >= pre.fractionalScore
    /\ countedScore = pre.countedScore

\* C19: every failed Assembler call is followed by exactly one broadcast, of the error
\* the Assembler left, at its level and code, Corrupt included; a successful call is
\* followed by none, and the delegating operations broadcast nothing else.
C19_OneBroadcastPerFailure ==
    op \in Delegating =>
        /\ \A i \in DOMAIN trace :
              trace[i].e \in AssemblerCalls =>
                  IF trace[i].ok
                  THEN i = Len(trace) \/ trace[i + 1].e # "notify"
                  ELSE /\ i < Len(trace)
                       /\ trace[i + 1].e = "notify"
                       /\ trace[i + 1].level = trace[i].level
                       /\ trace[i + 1].code = trace[i].code
        /\ Calls("notify")
              = Cardinality({i \in DOMAIN trace : trace[i].e \in AssemblerCalls /\ ~trace[i].ok})

\* C19, witness: the Assembler fails with a Fatal Corrupt error, broadcast as Fatal.
C19_Witness ==
    /\ op = "assembleCell"
    /\ ~trace[1].ok
    /\ trace[1].code = "Corrupt"
    /\ trace[1].level = "Fatal"
    /\ trace[2].e = "notify"
    /\ trace[2].level = "Fatal"

\* C20: markAsAssembled first attempts the terminal checkpoint, then invokes the
\* Assembler's markAsAssembled exactly once, also when the checkpoint failed, and
\* finishes the progress last; it broadcasts at most two Assembler errors.
C20_AssembledOrder ==
    op = "markAsAssembled" =>
        /\ trace[1].e = "markAsMilestone"
        /\ Calls("markAsMilestone") = 1
        /\ Calls("markAsAssembled") = 1
        /\ \A i \in At("markAsAssembled") : i > 1
        /\ \A i \in DOMAIN trace : trace[i].e \in AssemblerCalls \ {"markAsAssembled"} => i = 1
        /\ trace[Len(trace)].e = "finishProgress"
        /\ \A i \in At("markAsAssembled") : \E j \in At("finishProgress") : j > i
        /\ Calls("notify") <= 2

\* C20, witness: the terminal checkpoint and the final commit both fail and two errors
\* are broadcast.
C20_Witness ==
    /\ op = "markAsAssembled"
    /\ ~trace[1].ok
    /\ Calls("notify") = 2
    /\ result = "false"

====
